---- MODULE Spec2Model ----
(***************************************************************************)
(* Model of the grid path generator of src/Pcg/pcg.py: class PathGenerator *)
(* (grid sizing, coordinate sanitising, the weaving of biased random       *)
(* walks, dead-end branch growth, marker placement) as driven by           *)
(* MainWindow.run_generation, and of the process-wide random source that   *)
(* PathGenerator.generate seeds and draws from.                            *)
(***************************************************************************)
EXTENDS FiniteSets, Integers, Sequences, TLC

\* ------------------------------------------------------------------------
\* Bounds of the model
\* ------------------------------------------------------------------------
\* largest distance of a raw x / z coordinate from 1, in lattice steps, entered
\* for the walks
MaxStepsX == 1
MaxStepsZ == 0
\* largest spacing entered for the walks
MaxSpacing == 1
\* largest number of generation requests issued one after the other
MaxCalls == 2
\* largest raw coordinate and spacing entered when only sizing is examined
MaxRawCoord == 7
MaxRawSpacing == 4
\* largest distance of a raw coordinate from 1, in lattice steps, entered
\* for the seeded requests of rising density
MaxFillSteps == 2
\* largest distance of a raw coordinate from 1, in lattice steps, entered
\* for the seeded requests with branching
MaxGrowthSteps == 3

\* ------------------------------------------------------------------------
\* Program constants
\* ------------------------------------------------------------------------
WALL_CHAR == "#"
PATH_CHAR == " "
START_CHAR == "S"
END_CHAR == "E"

min_paths == 1
max_paths == 15
\* the seed value that generate treats like None: the source is not reseeded
NoSeed == -1
\* copies of each offset-reducing move in the candidate list
BiasCopies == 4

VARIABLES
    pc,                 \* position of the program
    calls,              \* generation requests completed so far
    calls_wanted,       \* generation requests the user issues
    user_start_pos, user_end_pos, spacing, allow_branching, fill_percent, seed,
    step, width, height, start_pos, end_pos,
    grid,               \* self.grid, grid[z][x]
    grid_data,          \* GridWidget.grid_data: the grid shown, <<>> before the first
    rng,                \* state of the process-wide random source
    num_paths_to_generate, paths_done, all_carved_cells,
    path_segments,      \* the segments of the walk under way (as a set)
    path_len,           \* len(path_segments)
    current, prev,
    cells_to_add, frontier, pool

vars == <<pc, calls, calls_wanted, user_start_pos, user_end_pos, spacing,
          allow_branching, fill_percent, seed, step, width, height, start_pos,
          end_pos, grid, grid_data, rng, num_paths_to_generate, paths_done,
          all_carved_cells, path_segments, path_len, current, prev,
          cells_to_add, frontier, pool>>

inputs == <<calls_wanted, user_start_pos, user_end_pos, spacing,
            allow_branching, fill_percent, seed>>
fields == <<step, width, height, start_pos, end_pos>>
walk_locals == <<path_segments, path_len, current, prev>>
branch_locals == <<cells_to_add, frontier, pool>>

\* ------------------------------------------------------------------------
\* Arithmetic of the Python built-ins used
\* ------------------------------------------------------------------------
Max(a, b) == IF a >= b THEN a ELSE b
Min(a, b) == IF a <= b THEN a ELSE b
Abs(a) == IF a >= 0 THEN a ELSE 0 - a

\* math.ceil(num / den) for den > 0
PyCeil(num, den) == 0 - ((0 - num) \div den)

\* round(num / den) for den > 0: Python rounds a tie to the even integer
PyRound(num, den) ==
    LET q == num \div den
        r == num % den
    IN  IF 2 * r < den THEN q
        ELSE IF 2 * r > den THEN q + 1
        ELSE IF q % 2 = 0 THEN q ELSE q + 1

\* ------------------------------------------------------------------------
\* PathGenerator.__init__
\* ------------------------------------------------------------------------
\* the dimension rounded down, not up, to the lattice
_adjust_dim_floor(dim, st) ==
    LET k == (dim - 1) \div st
    IN  k * st + 1

_adjust_dim(dim, st) ==
    LET k == PyCeil(dim - 1, st)
    IN  k * st + 1

\* the lattice point computed without the offset of 1
_sanitize_axis_no_offset(c, st, dimension) ==
    LET k == PyRound(c - 1, st)
        valid_c == k * st
    IN  Max(1, Min(valid_c, dimension - 2))

\* the lattice index truncated, not rounded
_sanitize_axis_trunc(c, st, dimension) ==
    LET k == (c - 1) \div st
        valid_c == k * st + 1
    IN  Max(1, Min(valid_c, dimension - 2))

_sanitize_axis(c, st, dimension) ==
    LET k == PyRound(c - 1, st)
        valid_c == k * st + 1
    IN  Max(1, Min(valid_c, dimension - 2))

_sanitize_coord(pos, st, w, h) ==
    <<_sanitize_axis(pos[1], st, w), _sanitize_axis(pos[2], st, h)>>

WallGrid(w, h) == [z \in 0..(h - 1) |-> [x \in 0..(w - 1) |-> WALL_CHAR]]

\* ------------------------------------------------------------------------
\* The random source (module random), process-wide
\* ------------------------------------------------------------------------
\* rng = Entropy: never seeded by the program, every draw can give any value.
\* rng >= 0: the state of the generator after random.seed; every draw is a
\* function of the state and advances it.
Entropy == 0 - 1
SeedState(s) == s % 64
RngNext(r) == (5 * r + 3) % 64
\* the draw of an integer in 0..n-1 from state r
RandBelow(n, r) == (r \div 4) % n

Swap(x, i, j) == [x EXCEPT ![i] = x[j], ![j] = x[i]]

\* random.shuffle of a seeded source: for i from the last index down to the
\* second, swap x[i] with x[j], j drawn below i (indices from 1 here).  The
\* list and the state after each swap are bound as values before the next.
RECURSIVE ShuffleFrom(_, _, _)
ShuffleFrom(x, i, r) ==
    IF i < 2 THEN [list |-> x, rng |-> r]
    ELSE CHOOSE res \in {ShuffleFrom(y, i - 1, s) :
                            y \in {Swap(x, i, RandBelow(i, r) + 1)},
                            s \in {RngNext(r)}} : TRUE

Shuffle(x, r) == ShuffleFrom(x, Len(x), r)

\* list(a set of tuples): the iteration order of a set is a function of the
\* set's history; it is modelled by the lexicographic order
TupleLess(a, b) ==
    \E i \in 1..Len(a) :
        /\ a[i] < b[i]
        /\ \A j \in 1..(i - 1) : a[j] = b[j]

RECURSIVE ListOf(_)
ListOf(S) ==
    IF S = {} THEN <<>>
    ELSE LET m == CHOOSE a \in S : \A b \in S \ {a} : TupleLess(a, b)
         IN  <<m>> \o ListOf(S \ {m})

\* ------------------------------------------------------------------------
\* Initial states: the window is up, no generation requested yet
\* ------------------------------------------------------------------------
NoPos == <<0, 0>>

Idle ==
    /\ pc = "idle"
    /\ calls = 0
    /\ step = 0 /\ width = 0 /\ height = 0
    /\ start_pos = NoPos /\ end_pos = NoPos
    /\ grid = <<>>
    /\ grid_data = <<>>
    /\ rng = Entropy
    /\ num_paths_to_generate = 0 /\ paths_done = 0 /\ all_carved_cells = {}
    /\ path_segments = {} /\ path_len = 0 /\ current = NoPos /\ prev = NoPos
    /\ cells_to_add = 0 /\ frontier = <<>> /\ pool = {}

Seeds == {7, 42}
FillPercents == {1, 4, 20}

RawCoords(sp) ==
    (1..(1 + MaxStepsX * (sp + 1))) \X (1..(1 + MaxStepsZ * (sp + 1)))

\* The inputs of the window.  Unseeded requests: one walk (with branching,
\* from the corner), two walks without spacing or branching from the corner,
\* and every fill percentage between coincident corners.  Seeded requests,
\* repeated, with up to four walks.
Init ==
    /\ Idle
    /\ spacing \in 0..MaxSpacing
    /\ user_start_pos \in RawCoords(spacing)
    /\ user_end_pos \in RawCoords(spacing)
    /\ allow_branching \in BOOLEAN
    /\ \/ /\ seed = NoSeed
          /\ calls_wanted = 1
          /\ fill_percent = 1
          /\ allow_branching => user_start_pos = <<1, 1>>
       \/ /\ seed = NoSeed
          /\ calls_wanted = 1
          /\ fill_percent = 4
          /\ user_start_pos = <<1, 1>>
          /\ spacing = 0
          /\ ~allow_branching
       \/ /\ seed = NoSeed
          /\ calls_wanted = 1
          /\ fill_percent \in 1..100
          /\ user_start_pos = <<1, 1>>
          /\ user_end_pos = <<1, 1>>
          /\ spacing = 0
       \/ /\ seed \in Seeds
          /\ calls_wanted \in 1..MaxCalls
          /\ fill_percent \in FillPercents

\* The inputs when only the sizing is examined, and the inputs start=(5,5),
\* end=(35,35), spacing=1
InitDims ==
    /\ Idle
    /\ \/ /\ spacing \in 0..MaxRawSpacing
          /\ user_start_pos \in (1..MaxRawCoord) \X (1..MaxRawCoord)
          /\ user_end_pos \in (1..MaxRawCoord) \X (1..MaxRawCoord)
       \/ /\ spacing = 1
          /\ user_start_pos = <<5, 5>>
          /\ user_end_pos = <<35, 35>>
    /\ allow_branching = FALSE
    /\ seed = NoSeed
    /\ calls_wanted = 1
    /\ fill_percent = 20

\* ------------------------------------------------------------------------
\* MainWindow.run_generation: read the inputs, construct the generator
\* ------------------------------------------------------------------------
\* the size required without the two border cells
required_dim_no_border(m, st) == m + st

\* required_width, required_height: one lattice step and the border past
\* the largest coordinate
required_dim(m, st) == m + st + 2

RunGeneration ==
    /\ pc = "idle"
    /\ calls < calls_wanted
    /\ spacing + 1 # 0
    /\ LET st == spacing + 1
           max_x == Max(user_start_pos[1], user_end_pos[1])
           max_z == Max(user_start_pos[2], user_end_pos[2])
           required_width == required_dim(max_x, st)
           required_height == required_dim(max_z, st)
           w == _adjust_dim(required_width, st)
           h == _adjust_dim(required_height, st)
       IN  /\ step' = st
           /\ width' = w
           /\ height' = h
           /\ start_pos' = _sanitize_coord(user_start_pos, st, w, h)
           /\ end_pos' = _sanitize_coord(user_end_pos, st, w, h)
           /\ grid' = WallGrid(w, h)
    /\ pc' = "ready"
    /\ UNCHANGED <<calls, inputs, grid_data, rng, num_paths_to_generate,
                   paths_done, all_carved_cells, walk_locals, branch_locals>>

\* ------------------------------------------------------------------------
\* PathGenerator.generate
\* ------------------------------------------------------------------------
\* the path count truncated, not rounded
NumPathsTrunc(fp) ==
    (100 * min_paths + (max_paths - min_paths) * fp) \div 100

\* the path count falling, not rising, with the fill percentage
NumPathsInverted(fp) ==
    PyRound(100 * max_paths - (max_paths - min_paths) * fp, 100)

NumPaths(fp) ==
    PyRound(100 * min_paths + (max_paths - min_paths) * fp, 100)

\* the source seeded by the first call only
GenerateBeginSeedOnce ==
    /\ pc = "ready"
    /\ rng' = IF seed # NoSeed /\ rng = Entropy THEN SeedState(seed) ELSE rng
    /\ num_paths_to_generate' = NumPaths(fill_percent)
    /\ all_carved_cells' = {}
    /\ paths_done' = 0
    /\ pc' = "loop"
    /\ UNCHANGED <<calls, inputs, fields, grid, grid_data, walk_locals,
                   branch_locals>>

\* seeding and the path count
GenerateBegin ==
    /\ pc = "ready"
    /\ rng' = IF seed # NoSeed THEN SeedState(seed) ELSE rng
    /\ num_paths_to_generate' = NumPaths(fill_percent)
    /\ all_carved_cells' = {}
    /\ paths_done' = 0
    /\ pc' = "loop"
    /\ UNCHANGED <<calls, inputs, fields, grid, grid_data, walk_locals,
                   branch_locals>>

\* the walk started from the raw start, not the sanitized one
StartWalkAtUserStart ==
    /\ pc = "loop"
    /\ paths_done < num_paths_to_generate
    /\ path_segments' = {}
    /\ path_len' = 0
    /\ current' = user_start_pos
    /\ prev' = user_start_pos
    /\ pc' = "walk"
    /\ UNCHANGED <<calls, inputs, fields, grid, grid_data, rng,
                   num_paths_to_generate, paths_done, all_carved_cells,
                   branch_locals>>

\* one more walk is started
StartWalk ==
    /\ pc = "loop"
    /\ paths_done < num_paths_to_generate
    /\ path_segments' = {}
    /\ path_len' = 0
    /\ current' = start_pos
    /\ prev' = start_pos
    /\ pc' = "walk"
    /\ UNCHANGED <<calls, inputs, fields, grid, grid_data, rng,
                   num_paths_to_generate, paths_done, all_carved_cells,
                   branch_locals>>

\* ------------------------------------------------------------------------
\* PathGenerator._generate_random_solution_path
\* ------------------------------------------------------------------------
Repeat(m, n) == [i \in 1..n |-> m]

Add(p, d) == <<p[1] + d[1], p[2] + d[2]>>

\* the far border taken for a cell inside the grid
InGridWithFarBorder(p) ==
    /\ 0 < p[1] /\ p[1] < width
    /\ 0 < p[2] /\ p[2] < height

InGrid(p) ==
    /\ 0 < p[1] /\ p[1] < width - 1
    /\ 0 < p[2] /\ p[2] < height - 1

\* the four cardinal moves left out when a move reduces the offset
MovesBiasedOnly(cur) ==
    LET dx_total == end_pos[1] - cur[1]
        dz_total == end_pos[2] - cur[2]
        mx == IF dx_total > 0 THEN Repeat(<<step, 0>>, BiasCopies)
              ELSE IF dx_total < 0 THEN Repeat(<<0 - step, 0>>, BiasCopies)
              ELSE <<>>
        mz == IF dz_total > 0 THEN Repeat(<<0, step>>, BiasCopies)
              ELSE IF dz_total < 0 THEN Repeat(<<0, 0 - step>>, BiasCopies)
              ELSE <<>>
    IN  IF mx \o mz # <<>> THEN mx \o mz
        ELSE <<(<<step, 0>>), (<<0 - step, 0>>), (<<0, step>>), (<<0, 0 - step>>)>>

\* the candidate list before it is shuffled
Moves(cur) ==
    LET dx_total == end_pos[1] - cur[1]
        dz_total == end_pos[2] - cur[2]
        mx == IF dx_total > 0 THEN Repeat(<<step, 0>>, BiasCopies)
              ELSE IF dx_total < 0 THEN Repeat(<<0 - step, 0>>, BiasCopies)
              ELSE <<>>
        mz == IF dz_total > 0 THEN Repeat(<<0, step>>, BiasCopies)
              ELSE IF dz_total < 0 THEN Repeat(<<0, 0 - step>>, BiasCopies)
              ELSE <<>>
    IN  mx \o mz \o <<(<<step, 0>>), (<<0 - step, 0>>),
                      (<<0, step>>), (<<0, 0 - step>>)>>

\* indices of the candidates whose target lies inside the grid
Usable(cur, list) == {i \in 1..Len(list) : InGrid(Add(cur, list[i]))}

MinOf(S) == CHOOSE a \in S : \A b \in S : a <= b

\* what one iteration of the walk loop can do from cur: shuffle the
\* candidates, take the first one that stays inside the grid.  With an
\* unseeded source any usable candidate can come first.
WalkOutcomes(cur, r) ==
    LET moves == Moves(cur)
    IN  IF r = Entropy
        THEN IF Usable(cur, moves) = {}
             THEN {[moved |-> FALSE, next |-> cur, rng |-> r]}
             ELSE {[moved |-> TRUE, next |-> Add(cur, moves[i]), rng |-> r] :
                      i \in Usable(cur, moves)}
        ELSE LET sh == Shuffle(moves, r)
             IN  IF Usable(cur, sh.list) = {}
                 THEN {[moved |-> FALSE, next |-> cur, rng |-> sh.rng]}
                 ELSE {[moved |-> TRUE,
                        next |-> Add(cur, sh.list[MinOf(Usable(cur, sh.list))]),
                        rng |-> sh.rng]}

\* the end tested only after a first move
AtEndAfterMove(cur) == cur = end_pos /\ path_len > 0

\* the end tested on the position before the last move
AtEndOfPrev(cur) == prev = end_pos /\ (path_len > 0 \/ cur = end_pos)

\* the test that ends a walk at the sanitized end
AtEnd(cur) == cur = end_pos

\* one iteration more than the cap
WalkCapPlusOne == width * height + 1

\* the number of iterations of the walk loop: range(self.width * self.height)
WalkCap == width * height

\* one iteration of the walk loop
WalkStep ==
    /\ pc = "walk"
    /\ path_len < WalkCap
    /\ ~AtEnd(current)
    /\ \E o \in WalkOutcomes(current, rng) :
        /\ rng' = o.rng
        /\ IF o.moved
           THEN /\ prev' = current
                /\ current' = o.next
                /\ path_segments' = path_segments \cup
                       {<<o.next[1], o.next[2], current[1], current[2]>>}
                /\ path_len' = path_len + 1
                /\ pc' = "walk"
           ELSE /\ pc' = "carve"
                /\ UNCHANGED walk_locals
    /\ UNCHANGED <<calls, inputs, fields, grid, grid_data,
                   num_paths_to_generate, paths_done, all_carved_cells,
                   branch_locals>>

\* the loop ends: the end is reached or the iteration cap is used up
WalkReturn ==
    /\ pc = "walk"
    /\ (path_len >= WalkCap \/ AtEnd(current))
    /\ pc' = "carve"
    /\ UNCHANGED <<calls, inputs, fields, grid, grid_data, rng,
                   num_paths_to_generate, paths_done, all_carved_cells,
                   walk_locals, branch_locals>>

\* ------------------------------------------------------------------------
\* generate: record and carve the walk that returned
\* ------------------------------------------------------------------------
\* the corridor carved one cell past its end
SegmentCellsOvershoot(sg) ==
    LET dx == sg[1] - sg[3]
        dz == sg[2] - sg[4]
    IN  {<<sg[3] + (dx \div step) * i, sg[4] + (dz \div step) * i>> :
            i \in 0..(step + 1)}

\* the corridor carved without its far endpoint
SegmentCellsShort(sg) ==
    LET dx == sg[1] - sg[3]
        dz == sg[2] - sg[4]
    IN  {<<sg[3] + (dx \div step) * i, sg[4] + (dz \div step) * i>> :
            i \in 0..(step - 1)}

\* only the two ends of the corridor carved
SegmentCellsEndsOnly(sg) == {<<sg[1], sg[2]>>, <<sg[3], sg[4]>>}

\* the cells written for one segment (x, z, px, pz)
SegmentCells(sg) ==
    LET dx == sg[1] - sg[3]
        dz == sg[2] - sg[4]
    IN  {<<sg[3] + (dx \div step) * i, sg[4] + (dz \div step) * i>> : i \in 0..step}

SetCells(g, cells, ch) ==
    [z \in DOMAIN g |->
        [x \in DOMAIN g[z] |-> IF <<x, z>> \in cells THEN ch ELSE g[z][x]]]

\* the segments of a walk that did not reach the end are dropped
CarvePathOnlyReached ==
    /\ pc = "carve"
    /\ all_carved_cells' =
           IF AtEnd(current) THEN all_carved_cells \cup path_segments
           ELSE all_carved_cells
    /\ grid' =
           IF AtEnd(current)
           THEN SetCells(grid, UNION {SegmentCells(sg) : sg \in path_segments},
                         PATH_CHAR)
           ELSE grid
    /\ paths_done' = paths_done + 1
    /\ path_segments' = {} /\ path_len' = 0
    /\ current' = NoPos /\ prev' = NoPos
    /\ pc' = "loop"
    /\ UNCHANGED <<calls, inputs, fields, grid_data, rng,
                   num_paths_to_generate, branch_locals>>

CarvePath ==
    /\ pc = "carve"
    /\ all_carved_cells' = all_carved_cells \cup path_segments
    /\ grid' = SetCells(grid, UNION {SegmentCells(sg) : sg \in path_segments},
                        PATH_CHAR)
    /\ paths_done' = paths_done + 1
    /\ path_segments' = {} /\ path_len' = 0
    /\ current' = NoPos /\ prev' = NoPos
    /\ pc' = "loop"
    /\ UNCHANGED <<calls, inputs, fields, grid_data, rng,
                   num_paths_to_generate, branch_locals>>

\* all walks done, branching off
SkipBranching ==
    /\ pc = "loop"
    /\ paths_done >= num_paths_to_generate
    /\ ~allow_branching
    /\ pc' = "mark"
    /\ UNCHANGED <<calls, inputs, fields, grid, grid_data, rng,
                   num_paths_to_generate, paths_done, all_carved_cells,
                   walk_locals, branch_locals>>

\* ------------------------------------------------------------------------
\* PathGenerator._add_dead_end_branches
\* ------------------------------------------------------------------------
\* the budget: int(len(initial_cells) * 0.2)
Budget(n) == (n * 2) \div 10

\* With a seeded source the frontier is the shuffled list.  With an unseeded
\* source every order is possible: the cells not yet popped are kept in
\* pool and the order is settled when a cell is popped; frontier then holds
\* the cells appended since, which are popped first.
BranchBegin ==
    /\ pc = "loop"
    /\ paths_done >= num_paths_to_generate
    /\ allow_branching
    /\ cells_to_add' = Budget(Cardinality(all_carved_cells))
    /\ IF rng = Entropy
       THEN /\ pool' = all_carved_cells
            /\ frontier' = <<>>
            /\ rng' = rng
       ELSE LET sh == Shuffle(ListOf(all_carved_cells), rng)
            IN  /\ pool' = {}
                /\ frontier' = sh.list
                /\ rng' = sh.rng
    /\ pc' = "branch"
    /\ UNCHANGED <<calls, inputs, fields, grid, grid_data,
                   num_paths_to_generate, paths_done, all_carved_cells,
                   walk_locals>>

FrontierEmpty == frontier = <<>> /\ pool = {}

\* frontier[-1] read without removing it
PopsPeek ==
    IF frontier # <<>>
    THEN {[cell |-> frontier[Len(frontier)], frontier |-> frontier, pool |-> pool]}
    ELSE {[cell |-> c, frontier |-> <<>>, pool |-> pool] : c \in pool}

\* frontier.pop()
Pops ==
    IF frontier # <<>>
    THEN {[cell |-> frontier[Len(frontier)],
           frontier |-> SubSeq(frontier, 1, Len(frontier) - 1),
           pool |-> pool]}
    ELSE {[cell |-> c, frontier |-> <<>>, pool |-> pool \ {c}] : c \in pool}

BranchDirs == <<(<<0, step>>), (<<0, 0 - step>>), (<<step, 0>>), (<<0 - step, 0>>)>>

\* the lattice neighbours of (x, z) inside the grid, Wall or not
NeighborsInGridOnly(x, z) ==
    LET cand == [i \in 1..4 |-> Add(<<x, z>>, BranchDirs[i])]
    IN  SelectSeq(cand, InGrid)

\* the lattice neighbours of (x, z) that are inside the grid and still Wall
Neighbors(x, z) ==
    LET cand == [i \in 1..4 |-> Add(<<x, z>>, BranchDirs[i])]
        ok(p) == InGrid(p) /\ grid[p[2]][p[1]] = WALL_CHAR
    IN  SelectSeq(cand, ok)

\* random.choice(seq)
Choices(seq, r) ==
    IF r = Entropy
    THEN {[val |-> seq[i], rng |-> r] : i \in 1..Len(seq)}
    ELSE {[val |-> seq[RandBelow(Len(seq), r) + 1], rng |-> RngNext(r)]}

\* every cell of the corridor, Wall or not
BranchCellsAll(x, z, next_cell) ==
    LET dx_carve == next_cell[1] - x
        dz_carve == next_cell[2] - z
    IN  {<<x + (dx_carve \div step) * i, z + (dz_carve \div step) * i>> :
            i \in 0..step}

\* the cells of the corridor from (x, z) to next_cell that are still Wall
BranchCells(x, z, next_cell) ==
    LET dx_carve == next_cell[1] - x
        dz_carve == next_cell[2] - z
        cells == {<<x + (dx_carve \div step) * i, z + (dz_carve \div step) * i>> :
                     i \in 0..step}
    IN  {c \in cells : grid[c[2]][c[1]] = WALL_CHAR}

\* the popped cell walled up again when a corridor leaves it
BranchStepClosesBehind ==
    /\ pc = "branch"
    /\ cells_to_add > 0
    /\ ~FrontierEmpty
    /\ \E p \in Pops :
        LET x == p.cell[1]
            z == p.cell[2]
            neighbors == Neighbors(x, z)
        IN  IF neighbors # <<>>
            THEN \E ch \in Choices(neighbors, rng) :
                    /\ rng' = ch.rng
                    /\ grid' = SetCells(
                           SetCells(grid, BranchCells(x, z, ch.val), PATH_CHAR),
                           {<<x, z>>}, WALL_CHAR)
                    /\ cells_to_add' =
                           cells_to_add - Cardinality(BranchCells(x, z, ch.val))
                    /\ frontier' = Append(p.frontier, ch.val)
                    /\ pool' = p.pool
            ELSE /\ frontier' = p.frontier
                 /\ pool' = p.pool
                 /\ UNCHANGED <<rng, grid, cells_to_add>>
    /\ pc' = "branch"
    /\ UNCHANGED <<calls, inputs, fields, grid_data, num_paths_to_generate,
                   paths_done, all_carved_cells, walk_locals>>

\* one iteration of the growth loop
BranchStep ==
    /\ pc = "branch"
    /\ cells_to_add > 0
    /\ ~FrontierEmpty
    /\ \E p \in Pops :
        LET x == p.cell[1]
            z == p.cell[2]
            neighbors == Neighbors(x, z)
        IN  IF neighbors # <<>>
            THEN \E ch \in Choices(neighbors, rng) :
                    /\ rng' = ch.rng
                    /\ grid' = SetCells(grid, BranchCells(x, z, ch.val), PATH_CHAR)
                    /\ cells_to_add' =
                           cells_to_add - Cardinality(BranchCells(x, z, ch.val))
                    /\ frontier' = Append(p.frontier, ch.val)
                    /\ pool' = p.pool
            ELSE /\ frontier' = p.frontier
                 /\ pool' = p.pool
                 /\ UNCHANGED <<rng, grid, cells_to_add>>
    /\ pc' = "branch"
    /\ UNCHANGED <<calls, inputs, fields, grid_data, num_paths_to_generate,
                   paths_done, all_carved_cells, walk_locals>>

\* the loop left with a budget of one
BranchEndOffByOne ==
    /\ pc = "branch"
    /\ (cells_to_add <= 1 \/ FrontierEmpty)
    /\ pc' = "mark"
    /\ frontier' = <<>> /\ pool' = {}
    /\ UNCHANGED <<calls, inputs, fields, grid, grid_data, rng,
                   num_paths_to_generate, paths_done, all_carved_cells,
                   walk_locals, cells_to_add>>

\* the growth loop ends
BranchEnd ==
    /\ pc = "branch"
    /\ (cells_to_add <= 0 \/ FrontierEmpty)
    /\ pc' = "mark"
    /\ frontier' = <<>> /\ pool' = {}
    /\ UNCHANGED <<calls, inputs, fields, grid, grid_data, rng,
                   num_paths_to_generate, paths_done, all_carved_cells,
                   walk_locals, cells_to_add>>

\* ------------------------------------------------------------------------
\* generate: the markers, and the return
\* ------------------------------------------------------------------------
\* the markers placed in the other order
PlaceMarkersEndFirst ==
    /\ pc = "mark"
    /\ grid' = SetCells(SetCells(grid, {end_pos}, END_CHAR),
                        {start_pos}, START_CHAR)
    /\ pc' = "return"
    /\ UNCHANGED <<calls, inputs, fields, grid_data, rng,
                   num_paths_to_generate, paths_done, all_carved_cells,
                   walk_locals, branch_locals>>

PlaceMarkers ==
    /\ pc = "mark"
    /\ grid' = SetCells(SetCells(grid, {start_pos}, START_CHAR),
                        {end_pos}, END_CHAR)
    /\ pc' = "return"
    /\ UNCHANGED <<calls, inputs, fields, grid_data, rng,
                   num_paths_to_generate, paths_done, all_carved_cells,
                   walk_locals, branch_locals>>

\* run_generation hands the returned grid to the grid widget
SetGridData ==
    /\ pc = "return"
    /\ grid_data' = grid
    /\ calls' = calls + 1
    /\ pc' = "idle"
    /\ UNCHANGED <<inputs, fields, grid, rng, num_paths_to_generate,
                   paths_done, all_carved_cells, walk_locals, branch_locals>>

Next ==
    \/ RunGeneration
    \/ GenerateBegin
    \/ StartWalk
    \/ WalkStep
    \/ WalkReturn
    \/ CarvePath
    \/ SkipBranching
    \/ BranchBegin
    \/ BranchStep
    \/ BranchEnd
    \/ PlaceMarkers
    \/ SetGridData

Spec == Init /\ [][Next]_vars

\* One request per behaviour: unseeded with one walk from the corner, seeded
\* with up to four walks.  Every step of generate is taken by the one thread
\* that runs it, so a step that can be taken is taken.
InitFair ==
    /\ Init
    /\ calls_wanted = 1
    /\ fill_percent \in FillPercents
    /\ seed = NoSeed => (fill_percent = 1 /\ user_start_pos = <<1, 1>>)

FairSpec == InitFair /\ [][Next]_vars /\ WF_vars(Next)

\* construction alone, over the wider inputs
SpecDims == InitDims /\ [][RunGeneration]_vars

\* ------------------------------------------------------------------------
\* PathGenerator constructed by a caller other than the window, which passes
\* values the spin boxes and the slider cannot hold
\* ------------------------------------------------------------------------
InvalidFills == {0 - 50, 0, 101, 200}

InitInvalid ==
    /\ Idle
    /\ spacing \in {0 - 1, 0, 1}
    /\ user_start_pos \in {<<1, 1>>, <<0 - 3, 1>>}
    /\ user_end_pos \in RawCoords(Max(spacing, 0))
    /\ allow_branching = FALSE
    /\ seed \in Seeds
    /\ calls_wanted = 1
    /\ fill_percent \in InvalidFills

\* __init__ with spacing = -1: step is 0 and the division in _adjust_dim
\* raises ZeroDivisionError, no generator is constructed
ConstructorRaises ==
    /\ pc = "idle"
    /\ calls < calls_wanted
    /\ spacing + 1 = 0
    /\ pc' = "raised"
    /\ UNCHANGED <<calls, inputs, fields, grid, grid_data, rng,
                   num_paths_to_generate, paths_done, all_carved_cells,
                   walk_locals, branch_locals>>

NextInvalid ==
    \/ ConstructorRaises
    \/ RunGeneration
    \/ GenerateBegin
    \/ StartWalk
    \/ WalkStep
    \/ WalkReturn
    \/ CarvePath
    \/ SkipBranching
    \/ PlaceMarkers
    \/ SetGridData

SpecInvalid == InitInvalid /\ [][NextInvalid]_vars

\* ------------------------------------------------------------------------
\* A caller that keeps its PathGenerator and calls generate on it again
\* ------------------------------------------------------------------------
InitReuse ==
    /\ Idle
    /\ spacing \in 0..MaxSpacing
    /\ user_start_pos \in RawCoords(spacing)
    /\ user_end_pos \in RawCoords(spacing)
    /\ allow_branching \in BOOLEAN
    /\ seed \in Seeds
    /\ calls_wanted = MaxCalls
    /\ fill_percent \in FillPercents

\* generate entered again on the generator that has returned: nothing is
\* constructed, self.grid is the list handed out by the call before
GenerateAgain ==
    /\ pc = "idle"
    /\ calls >= 1
    /\ calls < calls_wanted
    /\ pc' = "ready"
    /\ UNCHANGED <<calls, inputs, fields, grid, grid_data, rng,
                   num_paths_to_generate, paths_done, all_carved_cells,
                   walk_locals, branch_locals>>

NextReuse ==
    \/ (calls = 0 /\ RunGeneration)
    \/ GenerateAgain
    \/ GenerateBegin
    \/ StartWalk
    \/ WalkStep
    \/ WalkReturn
    \/ CarvePath
    \/ SkipBranching
    \/ BranchBegin
    \/ BranchStep
    \/ BranchEnd
    \/ PlaceMarkers
    \/ SetGridData

SpecReuse == InitReuse /\ [][NextReuse]_vars

\* ------------------------------------------------------------------------
\* Two requests with their steps interleaved.  The requests share nothing
\* but the random source of the module random, so the other request is
\* modelled by what its steps do to that source.  The first request of a
\* behaviour runs alone, the second runs with the other one.
\* ------------------------------------------------------------------------
InitConcurrent ==
    /\ Idle
    /\ spacing = 0
    /\ user_start_pos = <<1, 1>>
    /\ user_end_pos \in RawCoords(spacing)
    /\ allow_branching = FALSE
    /\ seed \in Seeds
    /\ calls_wanted = MaxCalls
    /\ fill_percent = 1

\* this request is inside generate, after its own random.seed
Generating == pc \in {"loop", "walk", "carve"}

\* the other request enters generate: random.seed(its seed)
OtherSeeds ==
    /\ calls >= 1
    /\ Generating
    /\ \E s \in Seeds : rng' = SeedState(s)
    /\ UNCHANGED <<pc, calls, inputs, fields, grid, grid_data,
                   num_paths_to_generate, paths_done, all_carved_cells,
                   walk_locals, branch_locals>>

\* the other request draws from the source (in random.shuffle)
OtherDraws ==
    /\ calls >= 1
    /\ Generating
    /\ rng' = RngNext(rng)
    /\ UNCHANGED <<pc, calls, inputs, fields, grid, grid_data,
                   num_paths_to_generate, paths_done, all_carved_cells,
                   walk_locals, branch_locals>>

NextConcurrent ==
    \/ RunGeneration
    \/ GenerateBegin
    \/ StartWalk
    \/ WalkStep
    \/ WalkReturn
    \/ CarvePath
    \/ SkipBranching
    \/ PlaceMarkers
    \/ SetGridData
    \/ OtherSeeds
    \/ OtherDraws

SpecConcurrent == InitConcurrent /\ [][NextConcurrent]_vars

\* ------------------------------------------------------------------------
\* Seeded requests without branching, the density slider moved up between
\* one request and the next
\* ------------------------------------------------------------------------
FillCoords(sp) ==
    (1..(1 + MaxFillSteps * (sp + 1))) \X (1..(1 + MaxFillSteps * (sp + 1)))

InitFill ==
    /\ Idle
    /\ spacing \in 0..MaxSpacing
    /\ user_start_pos \in FillCoords(spacing)
    /\ user_end_pos \in FillCoords(spacing)
    /\ allow_branching = FALSE
    /\ seed \in Seeds
    /\ calls_wanted = MaxCalls
    /\ fill_percent \in FillPercents

\* fill_slider moved to a larger value while no request runs
RaiseFill ==
    /\ pc = "idle"
    /\ calls >= 1
    /\ calls < calls_wanted
    /\ \E q \in FillPercents : q > fill_percent /\ fill_percent' = q
    /\ UNCHANGED <<pc, calls, calls_wanted, user_start_pos, user_end_pos,
                   spacing, allow_branching, seed, fields, grid, grid_data,
                   rng, num_paths_to_generate, paths_done, all_carved_cells,
                   walk_locals, branch_locals>>

NextFill ==
    \/ RunGeneration
    \/ GenerateBegin
    \/ StartWalk
    \/ WalkStep
    \/ WalkReturn
    \/ CarvePath
    \/ SkipBranching
    \/ PlaceMarkers
    \/ SetGridData
    \/ RaiseFill

SpecFill == InitFill /\ [][NextFill]_vars

\* ------------------------------------------------------------------------
\* Seeded requests with branching, three walks, start and end on the points
\* of a wider lattice
\* ------------------------------------------------------------------------
LatticeCoords(sp) ==
    {<<1 + i * (sp + 1), 1 + j * (sp + 1)>> : i, j \in 0..MaxGrowthSteps}

GrowthSeeds == Seeds \cup {23}

InitGrowth ==
    /\ Idle
    /\ spacing \in 0..MaxSpacing
    /\ user_start_pos \in LatticeCoords(spacing)
    /\ user_end_pos \in LatticeCoords(spacing)
    /\ allow_branching = TRUE
    /\ seed \in GrowthSeeds
    /\ calls_wanted = 1
    /\ fill_percent = 12

NextGrowth ==
    \/ RunGeneration
    \/ GenerateBegin
    \/ StartWalk
    \/ WalkStep
    \/ WalkReturn
    \/ CarvePath
    \/ BranchBegin
    \/ BranchStep
    \/ BranchEnd
    \/ PlaceMarkers
    \/ SetGridData

SpecGrowth == InitGrowth /\ [][NextGrowth]_vars

\* ------------------------------------------------------------------------
\* Properties
\* ------------------------------------------------------------------------
Constructed == step > 0
Cells == {<<x, z>> : x \in 0..(width - 1), z \in 0..(height - 1)}
At(g, c) == g[c[2]][c[1]]
Carved(g) == {c \in Cells : At(g, c) # WALL_CHAR}

\* C1: every call of generate, once started, returns its grid: the walk loops
\* and the growth loop end, whatever the random choices are.
GenerateTerminates == (pc = "ready") ~> (pc = "return")

\* C1 witness: a call returned after its growth loop ran with a budget
GenerateTerminatesWitness ==
    /\ pc = "return"
    /\ allow_branching
    /\ Cardinality(all_carved_cells) >= 5
    /\ seed = NoSeed

\* the smallest w >= required with w = 1 (mod st)
IsSmallestDim(w, required, st) ==
    /\ w % st = 1 % st
    /\ w >= required
    /\ \A v \in 0..(w - 1) : ~(v % st = 1 % st /\ v >= required)

\* C2: width and height are the smallest integers congruent to 1 modulo step
\* that are at least max(start, end) + step + 2 on their axis.
DimsAreSmallest ==
    Constructed =>
        /\ IsSmallestDim(width,
               Max(user_start_pos[1], user_end_pos[1]) + step + 2, step)
        /\ IsSmallestDim(height,
               Max(user_start_pos[2], user_end_pos[2]) + step + 2, step)

\* C2 witness: a width that had to be rounded up, beside a height that had not
DimsAreSmallestWitness ==
    /\ Constructed
    /\ step = 3
    /\ width > Max(user_start_pos[1], user_end_pos[1]) + step + 2
    /\ height = Max(user_start_pos[2], user_end_pos[2]) + step + 2

OnLattice(c, dimension) ==
    /\ (c - 1) % step = 0
    /\ 1 <= c /\ c <= dimension - 2

\* C3: the sanitized start and end lie on the lattice and strictly inside
\* the grid on both axes.
SanitizedOnLattice ==
    Constructed =>
        /\ OnLattice(start_pos[1], width) /\ OnLattice(start_pos[2], height)
        /\ OnLattice(end_pos[1], width) /\ OnLattice(end_pos[2], height)

\* C3 witness: the largest coordinates entered, off the lattice, were moved
SanitizedOnLatticeWitness ==
    /\ Constructed
    /\ step = 4
    /\ user_end_pos = <<MaxRawCoord, MaxRawCoord>>
    /\ end_pos # user_end_pos

Near(v, c) == 2 * Abs(v - c) <= step

\* C4: each sanitized coordinate is a lattice point nearest to the raw one:
\* twice its distance to the raw coordinate is at most step.
SanitizedIsNearest ==
    Constructed =>
        /\ Near(start_pos[1], user_start_pos[1])
        /\ Near(start_pos[2], user_start_pos[2])
        /\ Near(end_pos[1], user_end_pos[1])
        /\ Near(end_pos[2], user_end_pos[2])

\* C4 witness: a raw coordinate midway between two lattice points, and one
\* that was rounded up
SanitizedIsNearestWitness ==
    /\ Constructed
    /\ 2 * Abs(start_pos[1] - user_start_pos[1]) = step
    /\ end_pos[2] > user_end_pos[2]

\* C5: in the returned grid the sanitized end holds End, the sanitized start
\* holds Start unless it is the sanitized end, and no other cell holds a marker.
MarkersPlaced ==
    pc = "return" =>
        /\ At(grid, end_pos) = END_CHAR
        /\ start_pos # end_pos => At(grid, start_pos) = START_CHAR
        /\ \A c \in Cells \ {start_pos, end_pos} :
               At(grid, c) \notin {START_CHAR, END_CHAR}

\* C5 witness: a grid returned with coincident start and end after a grid
\* was returned before
MarkersPlacedWitness ==
    /\ pc = "return"
    /\ start_pos = end_pos
    /\ user_start_pos # user_end_pos
    /\ calls = 1

\* C6: with a seed other than the sentinel, a repeated request with the same
\* inputs returns a grid equal, cell by cell, to the one returned before.
SeededRunsAgree ==
    (pc = "return" /\ calls >= 1 /\ seed # NoSeed) => grid = grid_data

\* C6 witness: a repeated seeded request with several walks and a growth budget
SeededRunsAgreeWitness ==
    /\ pc = "return"
    /\ calls >= 1
    /\ seed # NoSeed
    /\ allow_branching
    /\ num_paths_to_generate >= 2
    /\ Cardinality(all_carved_cells) >= 5

\* n is an integer nearest to num / den
NearestTo(n, num, den) == 2 * Abs(den * n - num) <= den

\* C7: the number of walks run is 1 + 14 * fill_percent / 100 rounded to a
\* nearest integer, lies in 1..15, and is 1, 4, 8, 15 for 1, 20, 50, 100.
PathCountFollowsFormula ==
    pc = "return" =>
        /\ NearestTo(paths_done, 100 + 14 * fill_percent, 100)
        /\ paths_done \in 1..15
        /\ fill_percent = 1 => paths_done = 1
        /\ fill_percent = 20 => paths_done = 4
        /\ fill_percent = 50 => paths_done = 8
        /\ fill_percent = 100 => paths_done = 15

\* C7 witness: a fill percentage midway between two counts
PathCountFollowsFormulaWitness ==
    /\ pc = "return"
    /\ fill_percent = 25
    /\ paths_done = 4

OnBorder(c) ==
    \/ c[1] = 0 \/ c[1] = width - 1
    \/ c[2] = 0 \/ c[2] = height - 1

\* C8: at every point of generate and in the returned grid every cell of the
\* outer border is Wall.
BorderIsWall ==
    grid # <<>> => \A c \in Cells : OnBorder(c) => At(grid, c) = WALL_CHAR

\* C8 witness: without spacing, growth has carved and every cell inside the
\* border is carved
BorderIsWallWitness ==
    /\ pc = "mark"
    /\ spacing = 0
    /\ allow_branching
    /\ cells_to_add < Budget(Cardinality(all_carved_cells))
    /\ \A c \in Cells : ~OnBorder(c) => At(grid, c) # WALL_CHAR

\* c lies on the straight line between the two ends of segment sg
OnSegment(c, sg) ==
    /\ Min(sg[1], sg[3]) <= c[1] /\ c[1] <= Max(sg[1], sg[3])
    /\ Min(sg[2], sg[4]) <= c[2] /\ c[2] <= Max(sg[2], sg[4])

\* C9: without branching, every cell that is not Wall is a placed marker or
\* lies on the corridor of a segment returned by one of the walks.
OnlyWalkCellsCarved ==
    (~allow_branching /\ grid # <<>>) =>
        \A c \in Carved(grid) :
            \/ pc \in {"return", "idle"} /\ c \in {start_pos, end_pos}
            \/ \E sg \in all_carved_cells : OnSegment(c, sg)

\* C9 witness: two unseeded walks returned and carved, a cell inside the
\* border still Wall
OnlyWalkCellsCarvedWitness ==
    /\ pc = "return"
    /\ ~allow_branching
    /\ seed = NoSeed
    /\ paths_done = 2
    /\ Cardinality(all_carved_cells) >= 3
    /\ \E c \in Cells : ~OnBorder(c) /\ At(grid, c) = WALL_CHAR

\* C10: when the sanitized start and end coincide, every walk returns no
\* segment, growth has no budget and carves nothing, and the returned grid
\* has exactly one cell that is not Wall, holding End.
CoincidentEndpoints ==
    (Constructed /\ start_pos = end_pos) =>
        /\ path_len = 0 /\ path_segments = {} /\ all_carved_cells = {}
        /\ pc = "branch" => cells_to_add = 0
        /\ pc \in {"ready", "loop", "walk", "carve", "branch", "mark"} =>
               Carved(grid) = {}
        /\ pc = "return" =>
               Carved(grid) = {end_pos} /\ At(grid, end_pos) = END_CHAR

\* C10 witness: distinct raw points sanitized to one cell, several walks, and
\* branching on
CoincidentEndpointsWitness ==
    /\ pc = "return"
    /\ start_pos = end_pos
    /\ user_start_pos # user_end_pos
    /\ allow_branching
    /\ paths_done >= 2

\* C11: a fill percentage outside 1..100, a negative spacing or a negative
\* coordinate is either rejected by a validation error or clamped: generate
\* never runs with a path count outside 1..15 or a step <= 0, and no error
\* other than a validation error is raised.  The program has no validation
\* error; the one error it raises here is ZeroDivisionError.
InvalidConfigRejectedOrClamped ==
    /\ pc # "raised"
    /\ pc \notin {"idle", "raised"} => step > 0
    /\ pc \in {"loop", "walk", "carve", "branch", "mark", "return"}
          => num_paths_to_generate \in min_paths..max_paths

\* a walk has returned without reaching the sanitized end
FailedWalk == pc = "carve" /\ current # end_pos
\* no walk run so far has reached the sanitized end
NoWalkReachedEnd ==
    /\ start_pos # end_pos
    /\ \A sg \in all_carved_cells : <<sg[1], sg[2]>> # end_pos
\* every cell on the corridor of a recorded segment is carved in g
SegmentsCarved(g, segs) ==
    \A sg \in segs : \A c \in Cells : OnSegment(c, sg) => At(g, c) # WALL_CHAR

\* C12: a walk that ends without reaching the sanitized end does not abort
\* generate: its segments are recorded and carved and it counts as a walk
\* done; after it the remaining walks start, then the growth of branches
\* when it is enabled; and the call returns with every walk run, every
\* segment carved and Start and End stamped.
FailedWalkDoesNotAbort ==
    /\ [][FailedWalk =>
            /\ pc' = "loop"
            /\ paths_done' = paths_done + 1
            /\ path_segments # {}
            /\ path_segments \subseteq all_carved_cells'
            /\ SegmentsCarved(grid', path_segments)]_vars
    /\ [][(pc = "loop" /\ paths_done >= 1 /\ NoWalkReachedEnd) =>
            IF paths_done < num_paths_to_generate THEN pc' = "walk"
            ELSE IF allow_branching
                 THEN /\ pc' = "branch"
                      /\ cells_to_add' = Budget(Cardinality(all_carved_cells))
                 ELSE pc' = "mark"]_vars
    /\ [][(pc' = "return" /\ NoWalkReachedEnd') =>
            /\ paths_done' = num_paths_to_generate'
            /\ SegmentsCarved(grid', all_carved_cells')
            /\ At(grid', start_pos') = START_CHAR
            /\ At(grid', end_pos') = END_CHAR]_vars

\* C12 witness: a call returns after two walks, neither of which reached
\* the end
FailedWalkDoesNotAbortWitness ==
    /\ pc = "return"
    /\ NoWalkReachedEnd
    /\ paths_done = 2
    /\ all_carved_cells # {}

\* the inputs start=(5,5), end=(35,35), spacing=1
ScenarioInputs ==
    /\ user_start_pos = <<5, 5>>
    /\ user_end_pos = <<35, 35>>
    /\ spacing = 1

\* C13 as stated: for start=(5,5), end=(35,35), spacing=1 the grid has
\* width = height = 37.
ScenarioDimsAre37 ==
    (ScenarioInputs /\ Constructed) => (width = 37 /\ height = 37)

\* C13 amended: for start=(5,5), end=(35,35), spacing=1 the grid has
\* width = height = 39, the smallest 2k+1 that is at least 35 + 2 + 2.
ScenarioDimsAre39 ==
    (ScenarioInputs /\ Constructed) =>
        /\ step = 2
        /\ width = 39 /\ height = 39
        /\ DOMAIN grid = 0..38 /\ DOMAIN grid[0] = 0..38

\* C13 witness: the generator of the scenario is constructed
ScenarioDimsAre39Witness ==
    ScenarioInputs /\ pc = "ready" /\ step = 2

\* C14: a grid that generate has returned is never changed afterwards, a
\* second generate call on the same PathGenerator included, and every call
\* starts from a grid that is Wall everywhere.  Where the generator is
\* kept, the grid handed out is self.grid, and grid_data holds its cells as
\* they were when it was handed out.
ReturnedGridNeverModified ==
    /\ calls >= 1 => grid = grid_data
    /\ pc = "ready" => Carved(grid) = {}

\* C15: of two generate calls with fixed seeds whose steps are interleaved,
\* each returns the grid it returns when it runs alone.  The first request
\* of a behaviour runs alone and its grid is kept in grid_data; the second
\* runs with the same inputs, interleaved with the other request.
InterleavedRunsAgree ==
    (pc = "return" /\ calls >= 1 /\ seed # NoSeed) => grid = grid_data

PathCells(g) == {c \in Cells : At(g, c) = PATH_CHAR}

\* C16: with the same seed, start, end and spacing and branching off, the
\* cells that are not Wall in the grid for a fill percentage p are not Wall
\* in the grid for any q >= p, and the grid for q has at least as many Path
\* cells.  grid_data is the grid of the request before, whose fill
\* percentage was at most that of the request returning.
DensityMonotone ==
    (pc = "return" /\ calls >= 1 /\ ~allow_branching /\ seed # NoSeed) =>
        /\ Carved(grid_data) \subseteq Carved(grid)
        /\ Cardinality(PathCells(grid_data)) <= Cardinality(PathCells(grid))

\* C16 witness: the request with the larger fill percentage returns a grid
\* with more cells carved than the one before
DensityMonotoneWitness ==
    /\ pc = "return" /\ calls >= 1
    /\ fill_percent = 20
    /\ Carved(grid_data) # Carved(grid)
    /\ Carved(grid_data) \subseteq Carved(grid)

\* the cells of the corridor of segment sg that are Path in g
PathOnSegment(g, sg) == {c \in Cells : OnSegment(c, sg) /\ At(g, c) = PATH_CHAR}
Straight(sg) == sg[1] = sg[3] \/ sg[2] = sg[4]
\* carving the walk leaves every cell off its corridors as it was
OffCorridorsUnchanged ==
    \A c \in Cells :
        (\A sg \in path_segments : ~OnSegment(c, sg)) => At(grid', c) = At(grid, c)

\* C17 as stated: for each segment of a walk generate sets to Path a
\* straight axis-aligned corridor from (px, pz) to (x, z) of exactly step
\* cells counting both endpoints, and no other cell.
SegmentCarvesStepCells ==
    [][pc = "carve" =>
        /\ \A sg \in path_segments :
              /\ Straight(sg)
              /\ Cardinality(PathOnSegment(grid', sg)) = step
        /\ OffCorridorsUnchanged]_vars

\* C17 amended: the corridor has exactly step + 1 cells counting both
\* endpoints: the two lattice points, step apart, and the step - 1 cells
\* between them.
SegmentCarvesStepPlusOneCells ==
    [][pc = "carve" =>
        /\ \A sg \in path_segments :
              /\ Straight(sg)
              /\ Abs(sg[1] - sg[3]) + Abs(sg[2] - sg[4]) = step
              /\ Cardinality(PathOnSegment(grid', sg)) = step + 1
              /\ At(grid', <<sg[1], sg[2]>>) = PATH_CHAR
              /\ At(grid', <<sg[3], sg[4]>>) = PATH_CHAR
        /\ OffCorridorsUnchanged]_vars

\* C17 witness: a walk with a segment has been carved at step 2, its
\* corridor of three cells is Path
SegmentCarvesStepPlusOneCellsWitness ==
    /\ pc = "loop"
    /\ step = 2
    /\ \E sg \in all_carved_cells : Cardinality(PathOnSegment(grid, sg)) = 3

\* C18: the budget of the growth is 0.2 times the number of distinct grid
\* cells carved by the walks, truncated to an integer.  When the growth
\* starts no marker is placed yet: the cells carved by the walks are the
\* cells of the grid that are not Wall.
BudgetIsFifthOfCarvedCells ==
    [][(pc = "loop" /\ pc' = "branch") =>
        cells_to_add' = (2 * Cardinality(Carved(grid))) \div 10]_vars

\* the cells that a step turns from Wall into Path
Flipped == {c \in Cells : At(grid, c) = WALL_CHAR /\ At(grid', c) = PATH_CHAR}

\* C19 as stated: the Wall-to-Path transitions made by the growth never
\* exceed its budget: the remaining budget never becomes negative.
BudgetNeverNegative == pc = "branch" => cells_to_add >= 0

\* C19 amended: a corridor is started only while the remaining budget is
\* positive, the budget falls by the number of cells the corridor turns
\* from Wall into Path, at most step of them, and with a budget of zero or
\* less the growth stops: the remaining budget never falls below 1 - step
\* (at spacing 0 it is never negative).
BudgetOvershootBelowStep ==
    [][/\ Constructed' => cells_to_add' >= 1 - step'
       /\ (pc = "branch" /\ grid' # grid) =>
              /\ cells_to_add > 0
              /\ Cardinality(Flipped) <= step
              /\ cells_to_add' = cells_to_add - Cardinality(Flipped)
       /\ (pc = "branch" /\ cells_to_add <= 0) =>
              (pc' = "mark" /\ grid' = grid)]_vars

\* C19 witness: at step 2 a corridor of two Wall cells was carved with a
\* budget of one left
BudgetOvershootBelowStepWitness ==
    pc = "branch" /\ step = 2 /\ cells_to_add = 0 - 1

\* the cells next to c, on either axis, that are not Wall in g
CarvedAround(g, c) ==
    {d \in Cells : Abs(d[1] - c[1]) + Abs(d[2] - c[2]) = 1 /\ At(g, d) # WALL_CHAR}

\* C20: for every spacing, 0 included, a branch corridor never joins two
\* carved regions: right after a corridor is carved, the cell it ends in
\* (the cell appended to the frontier) has no 4-neighbour that is not Wall
\* other than the corridor cell it was reached from.
BranchNeverJoins ==
    [][(pc = "branch" /\ grid' # grid) =>
        Cardinality(CarvedAround(grid', frontier'[Len(frontier')])) <= 1]_vars

\* the cells the growth can still pop: x, z of each entry of the frontier
FrontierCells ==
    {<<f[1], f[2]>> : f \in pool \cup {frontier[i] : i \in DOMAIN frontier}}

\* C21: the frontier the growth begins with contains every cell carved by
\* the walks, the sanitized start cell and the corridor cells between
\* lattice points included.  When the growth begins no marker is placed:
\* the cells carved by the walks are the cells that are not Wall.
FrontierHoldsEveryCarvedCell ==
    [][(pc = "loop" /\ pc' = "branch") => Carved(grid) \subseteq FrontierCells']_vars

\* the cells that were placed on the frontier, at first or by the growth:
\* every carved lattice point but a start that no walk came back to
EverOnFrontier ==
    {c \in Carved(grid) :
        /\ OnLattice(c[1], width) /\ OnLattice(c[2], height)
        /\ c = start_pos => \E sg \in all_carved_cells : <<sg[1], sg[2]>> = c}
\* c has a lattice neighbour inside the grid that is Wall
HasWallNeighbor(c) ==
    \E i \in 1..4 :
        /\ InGrid(Add(c, BranchDirs[i]))
        /\ At(grid, Add(c, BranchDirs[i])) = WALL_CHAR

\* C22 as stated: when the growth has stopped with budget left, no cell
\* that was placed on the frontier has a lattice neighbour inside the grid
\* that is still Wall.
GrowthLeavesNoWallNeighbor ==
    (pc = "mark" /\ allow_branching /\ cells_to_add > 0) =>
        \A c \in EverOnFrontier : ~HasWallNeighbor(c)

\* the entry that a step of the growth pops
PoppedEntry ==
    IF frontier # <<>> THEN frontier[Len(frontier)]
    ELSE CHOOSE f \in pool : f \notin pool'
FrontierSize == Len(frontier) + Cardinality(pool)

\* C22 amended: when the growth stops with budget left the frontier is
\* empty.  Every entry is popped once: if its cell has no Wall lattice
\* neighbour inside the grid nothing is carved, otherwise one corridor is
\* carved to one of them, which is appended.  A cell that was on the
\* frontier can keep a Wall neighbour.
GrowthStopsOnEmptyFrontier ==
    [][/\ (pc = "branch" /\ pc' = "mark" /\ cells_to_add > 0) => FrontierEmpty
       /\ (pc = "branch" /\ pc' = "branch") =>
             LET c == <<PoppedEntry[1], PoppedEntry[2]>>
             IN  IF HasWallNeighbor(c)
                 THEN LET n == frontier'[Len(frontier')]
                      IN  /\ Abs(n[1] - c[1]) + Abs(n[2] - c[2]) = step
                          /\ InGrid(n)
                          /\ At(grid, n) = WALL_CHAR
                          /\ At(grid', n) = PATH_CHAR
                          /\ FrontierSize' = FrontierSize
                 ELSE /\ grid' = grid
                      /\ FrontierSize' = FrontierSize - 1]_vars

\* C22 witness: the growth has stopped with budget left and a cell that
\* was on the frontier still has a Wall neighbour
GrowthStopsOnEmptyFrontierWitness ==
    /\ pc = "mark" /\ allow_branching /\ cells_to_add > 0
    /\ \E c \in EverOnFrontier : HasWallNeighbor(c)

\* p is a lattice point strictly inside the grid
InnerLatticePoint(p) == OnLattice(p[1], width) /\ OnLattice(p[2], height)
\* sg moves exactly step cells along exactly one axis
OneLatticeMove(sg) ==
    \/ (Abs(sg[1] - sg[3]) = step /\ sg[2] = sg[4])
    \/ (sg[1] = sg[3] /\ Abs(sg[2] - sg[4]) = step)

\* C23: in every walk every position is a lattice point strictly inside
\* the grid, every recorded segment moves exactly step cells along exactly
\* one axis, the walk is at the sanitized start before its first segment,
\* and every segment starts at the position the walk was at, which is where
\* the segment before it ended.
WalkIsLatticeChain ==
    [][/\ pc' = "walk" =>
            /\ InnerLatticePoint(current')
            /\ path_len' = 0 => (current' = start_pos' /\ path_segments' = {})
            /\ \A sg \in path_segments' :
                  /\ OneLatticeMove(sg)
                  /\ InnerLatticePoint(<<sg[1], sg[2]>>)
                  /\ InnerLatticePoint(<<sg[3], sg[4]>>)
       /\ (pc = "walk" /\ path_len' # path_len) =>
            /\ path_len' = path_len + 1
            /\ path_segments' = path_segments \cup
                   {<<current'[1], current'[2], current[1], current[2]>>}
            /\ prev' = current]_vars

\* C23 witness: a walk at step 2 has recorded two segments
WalkIsLatticeChainWitness ==
    pc = "walk" /\ step = 2 /\ path_len >= 2 /\ Cardinality(path_segments) = 2

\* C24: a walk records no segment once its position is the sanitized end:
\* in the segments of a walk the sanitized end is never the origin of a
\* segment, and it is the destination of a segment only if that segment
\* is the last one, after which the walk stays at the end and returns.
NoSegmentAfterEnd ==
    [][/\ (pc = "walk" /\ current = end_pos) =>
            (pc' = "carve" /\ path_segments' = path_segments
             /\ path_len' = path_len /\ current' = current)
       /\ pc' \in {"walk", "carve"} =>
            /\ \A sg \in path_segments' : <<sg[3], sg[4]>> # end_pos'
            /\ (\E sg \in path_segments' : <<sg[1], sg[2]>> = end_pos')
                  => current' = end_pos']_vars

\* C24 witness: a walk of three segments or more has returned at the end
NoSegmentAfterEndWitness ==
    pc = "carve" /\ current = end_pos /\ path_len >= 3

\* C25: every walk returns at most width * height segments, whatever the
\* random choices are.
WalkLengthCapped ==
    pc \in {"walk", "carve"} =>
        /\ path_len <= width * height
        /\ Cardinality(path_segments) <= path_len

\* C25 witness: a walk returns with width * height segments, the end not
\* reached
WalkLengthCappedWitness ==
    pc = "carve" /\ path_len = width * height /\ current # end_pos

\* the number of entries of list equal to m
CountOf(list, m) == Cardinality({i \in DOMAIN list : list[i] = m})
\* the move that reduces the offset v, if v is not zero
Sign(v) == IF v > 0 THEN 1 ELSE IF v < 0 THEN 0 - 1 ELSE 0
Cardinals == {<<step, 0>>, <<0 - step, 0>>, <<0, step>>, <<0, 0 - step>>}

\* C26: at each step of a walk the candidate list holds four copies of the
\* offset-reducing move of each axis whose offset to the end is not zero and
\* one copy of each of the four cardinal moves, 4, 8 or 12 entries, so each
\* cardinal move that stays inside the grid, one that leads away from the
\* end included, can be the move taken.
CandidatesBiasedButComplete ==
    (pc = "walk" /\ current # end_pos) =>
        LET moves == Moves(current)
            dx == Sign(end_pos[1] - current[1])
            dz == Sign(end_pos[2] - current[2])
            axes == Abs(dx) + Abs(dz)
        IN  /\ Len(moves) = 4 + 4 * axes
            /\ Len(moves) \in {8, 12}
            /\ \A m \in Cardinals :
                  CountOf(moves, m) =
                      IF (dx # 0 /\ m = <<dx * step, 0>>)
                         \/ (dz # 0 /\ m = <<0, dz * step>>)
                      THEN 5 ELSE 1
            /\ \A m \in Cardinals :
                  InGrid(Add(current, m)) =>
                      \E o \in WalkOutcomes(current, Entropy) :
                          o.moved /\ o.next = Add(current, m)

\* C26 witness: a walk took a move that leads away from the end on an axis
\* and stands where both offsets are not zero
CandidatesBiasedButCompleteWitness ==
    /\ pc = "walk"
    /\ Len(Moves(current)) = 12
    /\ Abs(end_pos[1] - current[1]) + Abs(end_pos[2] - current[2])
         > Abs(end_pos[1] - prev[1]) + Abs(end_pos[2] - prev[2])

\* the cardinal moves from p that stay inside the grid
OpenMoves(p) == {m \in Cardinals : InGrid(Add(p, m))}

\* C27: for the inputs the window can give, a walk is never stuck: from
\* every lattice point strictly inside the grid a cardinal lattice move
\* stays inside the grid, so the walk loop is never left for want of a move:
\* a walk returns only at the sanitized end or with the iteration cap of
\* width * height used up.
WalkNeverStuck ==
    [][/\ Constructed' =>
            \A p \in Cells' : InnerLatticePoint(p)' => OpenMoves(p)' # {}
       /\ (pc = "walk" /\ current # end_pos) =>
            \A o \in WalkOutcomes(current, rng) : o.moved
       /\ (pc = "walk" /\ pc' = "carve") =>
            (current = end_pos \/ path_len = width * height)]_vars

\* C27 witness: a walk stands in a corner of the lattice, where two of the
\* four moves leave the grid, and goes on
WalkNeverStuckWitness ==
    /\ pc = "walk"
    /\ path_len >= 2
    /\ current # end_pos
    /\ Cardinality(OpenMoves(current)) = 2

Adjacent(c, d) == Abs(c[1] - d[1]) + Abs(c[2] - d[2]) = 1

\* the cells joined to a cell of S by a chain of 4-adjacent cells of g that
\* are not Wall
RECURSIVE Region(_, _)
Region(g, S) ==
    LET more == {c \in Carved(g) \ S : \E d \in S : Adjacent(c, d)}
    IN  IF more = {} THEN S ELSE Region(g, S \cup more)

\* the region of the sanitized start
StartRegion(g) == Region(g, {start_pos} \cap Carved(g))

\* C28: in the returned grid every Path cell is joined to the sanitized
\* start cell by a chain of 4-adjacent cells that are not Wall, with
\* branching on or off.
PathCellsReachStart ==
    pc = "return" => PathCells(grid) \subseteq StartRegion(grid)

\* C28 witness: a grid is returned in which branches were grown at step 2
PathCellsReachStartWitness ==
    /\ pc = "return"
    /\ allow_branching
    /\ step = 2
    /\ cells_to_add < Budget(Cardinality(all_carved_cells))
    /\ Cardinality(PathCells(grid)) >= 5

\* a walk of this call has ended at the sanitized end
SomeWalkReachedEnd ==
    \/ (start_pos = end_pos /\ paths_done >= 1)
    \/ \E sg \in all_carved_cells : <<sg[1], sg[2]>> = end_pos

\* C29: once a walk has ended at the sanitized end and is carved, the
\* grid holds a chain of 4-adjacent cells that are not Wall from the start
\* cell to the end cell; the growth of branches and the stamping of the
\* markers keep it, and it is in the returned grid, between the Start and
\* the End marker.
StartJoinedToEnd ==
    (pc \in {"loop", "branch", "mark", "return"} /\ SomeWalkReachedEnd
     /\ start_pos # end_pos) =>
        /\ end_pos \in StartRegion(grid)
        /\ pc = "return" =>
              /\ At(grid, start_pos) = START_CHAR
              /\ At(grid, end_pos) = END_CHAR

\* C29 witness: a grid is returned after a walk reached the end and the
\* growth carved a branch
StartJoinedToEndWitness ==
    /\ pc = "return"
    /\ SomeWalkReachedEnd
    /\ start_pos # end_pos
    /\ allow_branching
    /\ cells_to_add < Budget(Cardinality(all_carved_cells))

\* the cells strictly between the lattice point a and its lattice
\* neighbour in direction i
Between(a, i) ==
    {<<a[1] + (BranchDirs[i][1] \div step) * k,
       a[2] + (BranchDirs[i][2] \div step) * k>> : k \in 1..(step - 1)}

\* a cell between two lattice points is not Wall only if both lattice
\* points are not Wall
BetweenOpenOnlyIfEndsOpen ==
    Constructed =>
        \A a \in {c \in Cells : InnerLatticePoint(c)} : \A i \in 1..4 :
            (/\ InGrid(Add(a, BranchDirs[i]))
             /\ \E c \in Between(a, i) : At(grid, c) # WALL_CHAR) =>
                /\ At(grid, a) # WALL_CHAR
                /\ At(grid, Add(a, BranchDirs[i])) # WALL_CHAR

\* C30: a cell between two lattice points is not Wall only if both
\* lattice points are not Wall, after every step; and each corridor that
\* the growth carves leaves a popped cell that is not Wall, ends in the
\* appended lattice neighbour, which was Wall like every cell strictly
\* between the two, and turns exactly step cells from Wall into Path, the
\* budget falling by step.
CorridorFlipsStepCells ==
    [][/\ BetweenOpenOnlyIfEndsOpen'
       /\ (pc = "branch" /\ grid' # grid) =>
            LET popped == <<PoppedEntry[1], PoppedEntry[2]>>
                next_cell == frontier'[Len(frontier')]
            IN  /\ At(grid, popped) # WALL_CHAR
                /\ At(grid, next_cell) = WALL_CHAR
                /\ Flipped = BranchCellsAll(popped[1], popped[2], next_cell)
                                \ {popped}
                /\ Cardinality(Flipped) = step
                /\ cells_to_add' = cells_to_add - step]_vars

\* C30 witness: the growth has carved a corridor with a cell between the
\* two lattice points
CorridorFlipsStepCellsWitness ==
    /\ pc = "branch"
    /\ step = 2
    /\ frontier # <<>>
    /\ Len(frontier[Len(frontier)]) = 2
    /\ cells_to_add = Budget(Cardinality(all_carved_cells)) - step
====
